---- MODULE Spec2Model ----
(***************************************************************************)
(* Model of the macropad_to_gamepad scripts.                               *)
(*                                                                         *)
(*   Spec        the combo remapper, virtual_joystick.py: the reader loop  *)
(*               over raw key events, its per-button state machine and the *)
(*               virtual device it writes to.                              *)
(*   SpecSimple  the Simple Combo Resolver (snapshot at press, replay at   *)
(*               release), modelled from its specification.                *)
(*   SpecFwd     forward_throttle of supercruise_only_throttle.py, applied *)
(*               to every combination of its inputs.                       *)
(***************************************************************************)
EXTENDS Integers, Sequences, FiniteSets, TLC

(***************************************************************************)
(* Bounds of the model.                                                    *)
(***************************************************************************)
\* longest key_mappings list of a configuration file
MaxBindings == 2
\* largest raw sample of the throttle axis
MaxSample == 2
MaxTime == 20
MaxStamp == 2
MaxLines == 2

(***************************************************************************)
(* Keys, raw events and configuration entries.                             *)
(***************************************************************************)
\* mod_state has one entry per value of MOD_KEYS; the two codes of the Ctrl
\* pair stand for the eight
MOD_KEYS == {"KEY_LEFTCTRL", "KEY_RIGHTCTRL"}

\* the non-modifier keys of the physical device: one whose name starts with
\* KEY_F and one whose name does not
OtherKeys == {"KEY_F13", "KEY_A"}

KeyNames == MOD_KEYS \cup OtherKeys

\* key_name.startswith("KEY_F")
StartsWithKeyF(key_name) == key_name \in {"KEY_F13"}

\* the raw events the device delivers: key events with value 0 (up), 1 (down),
\* 2 (auto-repeat), and events of another type
RawEvents ==
    [type : {"EV_KEY"}, code : KeyNames, value : {0, 1, 2}]
        \cup [type : {"EV_ABS"}, code : {"ABS_Z"}, value : {0}]

NoEvent == [type |-> "none", code |-> "none", value |-> 0]

KeyEventOf(code, value) == [type |-> "EV_KEY", code |-> code, value |-> value]

\* entries of key_mappings: combo[0] split at '|', combo[1], action
ConfigEntries ==
    { <<(<<"KEY_LEFTCTRL">>), "KEY_F13", "btn_0">>,
      <<(<<"KEY_LEFTCTRL", "KEY_RIGHTCTRL">>), "KEY_F13", "btn_0">>,
      <<(<<"KEY_RIGHTCTRL">>), "KEY_A", "btn_0">>,
      <<(<<"KEY_LEFTCTRL">>), "KEY_A", "btn_1">>,
      <<(<<"KEY_LEFTCTRL">>), "KEY_F13", "btn_1">> }

Configs == UNION { [1..n -> ConfigEntries] : n \in 1..MaxBindings }

\* int(action.replace('btn_', ''))
BtnNum(action) ==
    CASE action = "btn_0" -> 0
      [] action = "btn_1" -> 1
      [] action = "btn_2" -> 2

Range(s) == { s[i] : i \in DOMAIN s }

(***************************************************************************)
(* combo_map: a dict keyed by (frozenset(mod_combo), key), kept as the     *)
(* sequence of its items in insertion order.  Assigning to a key that is   *)
(* already present replaces the value and keeps the key's position.        *)
(***************************************************************************)
DictSet(items, k, v) ==
    IF \E i \in DOMAIN items : items[i].key = k
    THEN [i \in DOMAIN items |->
            IF items[i].key = k THEN [key |-> k, val |-> v] ELSE items[i]]
    ELSE Append(items, [key |-> k, val |-> v])

RECURSIVE BuildComboMap(_, _, _)
BuildComboMap(cfg, i, items) ==
    IF i > Len(cfg) THEN items
    ELSE BuildComboMap(cfg, i + 1,
            DictSet(items, <<Range(cfg[i][1]), cfg[i][2]>>, cfg[i][3]))

ComboMap(cfg) == BuildComboMap(cfg, 1, <<>>)

\* the keys of button_states in insertion order
RECURSIVE ButtonOrder(_, _, _)
ButtonOrder(cm, i, acc) ==
    IF i > Len(cm) THEN acc
    ELSE ButtonOrder(cm, i + 1,
            IF BtnNum(cm[i].val) \in Range(acc) THEN acc
            ELSE Append(acc, BtnNum(cm[i].val)))

Buttons(cm) == { BtnNum(cm[i].val) : i \in DOMAIN cm }

InitButtonStates(cm) == [b \in Buttons(cm) |-> "released"]

(***************************************************************************)
(* The virtual device: what the reader loop writes to it.                  *)
(***************************************************************************)
CUSTOM_BTN_BASE == 704

\* ui.write(ecodes.EV_KEY, code, value)
UiWrite(code, value) == [op |-> "write", code |-> code, value |-> value]

\* ui.syn()
UiSyn == [op |-> "syn", code |-> 0, value |-> 0]

\* the state one pass over combo_map or button_states carries: the button
\* states and the device operations made so far while handling the raw event
LoopState(bs, out) == [bs |-> bs, out |-> out]

(***************************************************************************)
(* Modifier branch: "Check all buttons in 'releasing' to see if we should  *)
(* finalize them", one iteration per item of combo_map.                    *)
(***************************************************************************)
RECURSIVE ModifierFinalizeLoop(_, _, _, _)
ModifierFinalizeLoop(cm, i, st, down) ==
    IF i > Len(cm) THEN st
    ELSE LET btn_num == BtnNum(cm[i].val)
             mods == cm[i].key[1]
         IN  IF st.bs[btn_num] = "releasing" /\ (mods \cap down) = {}
             THEN ModifierFinalizeLoop(cm, i + 1,
                     LoopState([st.bs EXCEPT ![btn_num] = "released"],
                               st.out \o <<UiWrite(CUSTOM_BTN_BASE + btn_num, 0), UiSyn>>),
                     down)
             ELSE ModifierFinalizeLoop(cm, i + 1, st, down)

(***************************************************************************)
(* Key press, first pass: "transition pressing".                           *)
(***************************************************************************)
RECURSIVE PressingLoop(_, _, _, _)
PressingLoop(cm, i, st, active_mods) ==
    IF i > Len(cm) THEN st
    ELSE LET btn_num == BtnNum(cm[i].val)
             mods == cm[i].key[1]
         IN  IF (\E mod \in mods : mod \in active_mods) /\ st.bs[btn_num] = "released"
             THEN PressingLoop(cm, i + 1,
                     LoopState([st.bs EXCEPT ![btn_num] = "pressing"], st.out),
                     active_mods)
             ELSE PressingLoop(cm, i + 1, st, active_mods)

(***************************************************************************)
(* Key press, second pass: "transition to pressed" for the items whose key *)
(* is the key pressed, "cancel non-matching pressing" for the others.      *)
(***************************************************************************)
\* the body of the pass without its state gate: a down at every matching item
RECURSIVE PressedLoopUngated(_, _, _, _)
PressedLoopUngated(cm, i, st, key_name) ==
    IF i > Len(cm) THEN st
    ELSE LET btn_num == BtnNum(cm[i].val)
             fkey == cm[i].key[2]
         IN  IF fkey = key_name
             THEN IF st.bs[btn_num] \in {"pressing", "pressed"}
                  THEN PressedLoopUngated(cm, i + 1,
                          LoopState([st.bs EXCEPT ![btn_num] = "pressed"],
                                    st.out \o <<UiWrite(CUSTOM_BTN_BASE + btn_num, 1), UiSyn>>),
                          key_name)
                  ELSE PressedLoopUngated(cm, i + 1, st, key_name)
             ELSE IF st.bs[btn_num] = "pressing"
                  THEN PressedLoopUngated(cm, i + 1,
                          LoopState([st.bs EXCEPT ![btn_num] = "released"], st.out),
                          key_name)
                  ELSE PressedLoopUngated(cm, i + 1, st, key_name)

\* the pass that marks a button pressed without writing to the device
RECURSIVE PressedLoopSilent(_, _, _, _)
PressedLoopSilent(cm, i, st, key_name) ==
    IF i > Len(cm) THEN st
    ELSE LET btn_num == BtnNum(cm[i].val)
             fkey == cm[i].key[2]
         IN  IF st.bs[btn_num] = "pressing"
             THEN PressedLoopSilent(cm, i + 1,
                     LoopState([st.bs EXCEPT ![btn_num] =
                                   IF fkey = key_name THEN "pressed" ELSE "released"],
                               st.out),
                     key_name)
             ELSE PressedLoopSilent(cm, i + 1, st, key_name)

\* the pass without its else branch: a candidate that is not matched stays
\* in 'pressing'
RECURSIVE PressedLoopNoCancel(_, _, _, _)
PressedLoopNoCancel(cm, i, st, key_name) ==
    IF i > Len(cm) THEN st
    ELSE LET btn_num == BtnNum(cm[i].val)
             fkey == cm[i].key[2]
         IN  IF fkey = key_name /\ st.bs[btn_num] = "pressing"
             THEN PressedLoopNoCancel(cm, i + 1,
                     LoopState([st.bs EXCEPT ![btn_num] = "pressed"],
                               st.out \o <<UiWrite(CUSTOM_BTN_BASE + btn_num, 1), UiSyn>>),
                     key_name)
             ELSE PressedLoopNoCancel(cm, i + 1, st, key_name)

RECURSIVE PressedLoop(_, _, _, _)
PressedLoop(cm, i, st, key_name) ==
    IF i > Len(cm) THEN st
    ELSE LET btn_num == BtnNum(cm[i].val)
             fkey == cm[i].key[2]
         IN  IF fkey = key_name
             THEN IF st.bs[btn_num] = "pressing"
                  THEN PressedLoop(cm, i + 1,
                          LoopState([st.bs EXCEPT ![btn_num] = "pressed"],
                                    st.out \o <<UiWrite(CUSTOM_BTN_BASE + btn_num, 1), UiSyn>>),
                          key_name)
                  ELSE PressedLoop(cm, i + 1, st, key_name)
             ELSE IF st.bs[btn_num] = "pressing"
                  THEN PressedLoop(cm, i + 1,
                          LoopState([st.bs EXCEPT ![btn_num] = "released"], st.out),
                          key_name)
                  ELSE PressedLoop(cm, i + 1, st, key_name)

(***************************************************************************)
(* Key release, first pass: "F-key released triggers releasing state".     *)
(***************************************************************************)
RECURSIVE ReleasingLoop(_, _, _, _)
ReleasingLoop(cm, i, st, key_name) ==
    IF i > Len(cm) THEN st
    ELSE LET btn_num == BtnNum(cm[i].val)
             fkey == cm[i].key[2]
         IN  IF fkey = key_name /\ st.bs[btn_num] = "pressed"
             THEN ReleasingLoop(cm, i + 1,
                     LoopState([st.bs EXCEPT ![btn_num] = "releasing"], st.out),
                     key_name)
             ELSE ReleasingLoop(cm, i + 1, st, key_name)

(***************************************************************************)
(* Key release, second pass: "Now finalize releasing state if no other key *)
(* is pressed", one iteration per item of button_states.                   *)
(***************************************************************************)
\* the pass left out: a button waits in 'releasing' for a modifier event
ReleaseFinalizeLoopSkipped(order, i, st, down) == st

\* the pass without its test of mod_keys_down
RECURSIVE ReleaseFinalizeLoopEager(_, _, _, _)
ReleaseFinalizeLoopEager(order, i, st, down) ==
    IF i > Len(order) THEN st
    ELSE LET btn_num == order[i]
         IN  IF st.bs[btn_num] = "releasing"
             THEN ReleaseFinalizeLoopEager(order, i + 1,
                     LoopState([st.bs EXCEPT ![btn_num] = "released"],
                               st.out \o <<UiWrite(CUSTOM_BTN_BASE + btn_num, 0), UiSyn>>),
                     down)
             ELSE ReleaseFinalizeLoopEager(order, i + 1, st, down)

RECURSIVE ReleaseFinalizeLoop(_, _, _, _)
ReleaseFinalizeLoop(order, i, st, down) ==
    IF i > Len(order) THEN st
    ELSE LET btn_num == order[i]
         IN  IF st.bs[btn_num] = "releasing" /\ down = {}
             THEN ReleaseFinalizeLoop(order, i + 1,
                     LoopState([st.bs EXCEPT ![btn_num] = "released"],
                               st.out \o <<UiWrite(CUSTOM_BTN_BASE + btn_num, 0), UiSyn>>),
                     down)
             ELSE ReleaseFinalizeLoop(order, i + 1, st, down)

(***************************************************************************)
(* State of the combo remapper.                                            *)
(***************************************************************************)
VARIABLES
    config,         \* key_mappings of the YAML file, in file order
    mod_state,      \* mod_state: modifier key name -> held
    mod_keys_down,  \* mod_keys_down
    fkeys_down,     \* fkeys_down
    button_states,  \* button_states: button number -> state name
    pc,             \* "loop" while read_loop runs, "closed" after ui.close()
    lastEv,         \* the raw event handled last
    out,            \* the device operations made while handling lastEv
    ui_level,       \* the virtual device: the value last written for each button
    held,           \* the physical keys that are down
    well_formed,    \* every raw event so far agreed with the physical keys
    alternates,     \* every write so far changed the level of its button
    dup,            \* lastEv equals the raw event handled before it
    pressed_via,    \* button -> index of the item of combo_map whose iteration
                    \* wrote its last button-down, 0 once it is released again
    scen            \* progress of the sequence m down, k down, k up, m up

comboVars ==
    <<config, mod_state, mod_keys_down, fkeys_down, button_states, pc, lastEv,
      out, ui_level, held, well_formed, alternates, dup, pressed_via, scen>>

combo_map == ComboMap(config)

NoScen == [stage |-> 0, m |-> "none", k |-> "none"]

\* the writes among the device operations, in order
Writes(ops) == SelectSeq(ops, LAMBDA o : o.op = "write")

Syns(ops) == SelectSeq(ops, LAMBDA o : o.op = "syn")

\* the level of every button after the operations ops
RECURSIVE LevelAfter(_, _, _)
LevelAfter(level, ops, i) ==
    IF i > Len(ops) THEN level
    ELSE IF ops[i].op = "write"
         THEN LevelAfter([level EXCEPT ![ops[i].code - CUSTOM_BTN_BASE] = ops[i].value],
                         ops, i + 1)
         ELSE LevelAfter(level, ops, i + 1)

\* every write among ops changes the level of its button
RECURSIVE EveryWriteToggles(_, _, _)
EveryWriteToggles(level, ops, i) ==
    IF i > Len(ops) THEN TRUE
    ELSE IF ops[i].op = "write"
         THEN /\ level[ops[i].code - CUSTOM_BTN_BASE] # ops[i].value
              /\ EveryWriteToggles(
                    [level EXCEPT ![ops[i].code - CUSTOM_BTN_BASE] = ops[i].value],
                    ops, i + 1)
         ELSE EveryWriteToggles(level, ops, i + 1)

\* a raw key event that the physical keys can produce: a down of a key that is
\* up, an up or a repeat of a key that is down
AgreesWithKeys(ev) ==
    IF ev.value = 1 THEN ev.code \notin held ELSE ev.code \in held

Clean == held = {} /\ \A b \in DOMAIN button_states : button_states[b] = "released"

ScenNext(ev) ==
    IF ev.type # "EV_KEY" THEN NoScen
    ELSE IF ev.value = 1 /\ ev.code \in MOD_KEYS /\ Clean
         THEN [stage |-> 1, m |-> ev.code, k |-> "none"]
    ELSE IF scen.stage = 1 /\ ev.value = 1 /\ ev.code \notin MOD_KEYS
         THEN [stage |-> 2, m |-> scen.m, k |-> ev.code]
    ELSE IF scen.stage = 2 /\ ev.value = 0 /\ ev.code = scen.k
         THEN [scen EXCEPT !.stage = 3]
    ELSE IF scen.stage = 3 /\ ev.value = 0 /\ ev.code = scen.m
         THEN [scen EXCEPT !.stage = 4]
    ELSE NoScen

\* the item whose iteration of the second pass writes the down of button b:
\* the first item of b with the key pressed
FirstItemOf(b, key_name) ==
    CHOOSE i \in DOMAIN combo_map :
        /\ BtnNum(combo_map[i].val) = b /\ combo_map[i].key[2] = key_name
        /\ \A j \in 1..(i - 1) :
              ~(BtnNum(combo_map[j].val) = b /\ combo_map[j].key[2] = key_name)

\* what every branch of the loop body leaves behind for the observer
Observe(ev, st) ==
    /\ pressed_via' =
          [b \in DOMAIN button_states |->
              IF st.bs[b] = "pressed" /\ button_states[b] # "pressed"
              THEN FirstItemOf(b, ev.code)
              ELSE IF st.bs[b] = "released" THEN 0 ELSE pressed_via[b]]
    /\ lastEv' = ev
    /\ out' = st.out
    /\ ui_level' = LevelAfter(ui_level, st.out, 1)
    /\ alternates' = (alternates /\ EveryWriteToggles(ui_level, st.out, 1))
    /\ dup' = (ev = lastEv)
    /\ scen' = ScenNext(ev)
    /\ IF ev.type = "EV_KEY"
       THEN /\ held' = IF ev.value # 0 THEN held \cup {ev.code} ELSE held \ {ev.code}
            /\ well_formed' = (well_formed /\ AgreesWithKeys(ev))
       ELSE UNCHANGED <<held, well_formed>>

ComboInit ==
    /\ config \in Configs
    /\ mod_state = [k \in MOD_KEYS |-> FALSE]
    /\ mod_keys_down = {}
    /\ fkeys_down = {}
    /\ button_states = InitButtonStates(ComboMap(config))
    /\ pc = "loop"
    /\ lastEv = NoEvent
    /\ out = <<>>
    /\ ui_level = [b \in Buttons(ComboMap(config)) |-> 0]
    /\ held = {}
    /\ well_formed = TRUE
    /\ alternates = TRUE
    /\ dup = FALSE
    /\ pressed_via = [b \in Buttons(ComboMap(config)) |-> 0]
    /\ scen = NoScen

(***************************************************************************)
(* The body of "for event in device.read_loop()", one action per branch.   *)
(***************************************************************************)
\* if event.type != ecodes.EV_KEY: continue
SkipEvent(ev) ==
    /\ pc = "loop"
    /\ ev.type # "EV_KEY"
    /\ Observe(ev, LoopState(button_states, <<>>))
    /\ UNCHANGED <<config, mod_state, mod_keys_down, fkeys_down, button_states, pc>>

\* if key_name in mod_state: ... continue
ModifierEvent(ev) ==
    /\ pc = "loop"
    /\ ev.type = "EV_KEY"
    /\ ev.code \in DOMAIN mod_state
    /\ mod_state' = [mod_state EXCEPT ![ev.code] = (ev.value # 0)]
    /\ mod_keys_down' = IF ev.value # 0 THEN mod_keys_down \cup {ev.code}
                        ELSE mod_keys_down \ {ev.code}
    /\ LET st == ModifierFinalizeLoop(combo_map, 1, LoopState(button_states, <<>>),
                                      mod_keys_down')
       IN  /\ button_states' = st.bs
           /\ Observe(ev, st)
    /\ UNCHANGED <<config, fkeys_down, pc>>

FkeysDownAfter(ev) ==
    IF StartsWithKeyF(ev.code)
    THEN IF ev.value # 0 THEN fkeys_down \cup {ev.code} ELSE fkeys_down \ {ev.code}
    ELSE fkeys_down

active_mods == { k \in DOMAIN mod_state : mod_state[k] }

\* if value == 1:  # key press
KeyPress(ev) ==
    /\ pc = "loop"
    /\ ev.type = "EV_KEY"
    /\ ev.code \notin DOMAIN mod_state
    /\ ev.value = 1
    /\ fkeys_down' = FkeysDownAfter(ev)
    /\ LET st1 == PressingLoop(combo_map, 1, LoopState(button_states, <<>>), active_mods)
           st == PressedLoop(combo_map, 1, st1, ev.code)
       IN  /\ button_states' = st.bs
           /\ Observe(ev, st)
    /\ UNCHANGED <<config, mod_state, mod_keys_down, pc>>

\* elif value == 0:  # key release
KeyRelease(ev) ==
    /\ pc = "loop"
    /\ ev.type = "EV_KEY"
    /\ ev.code \notin DOMAIN mod_state
    /\ ev.value = 0
    /\ fkeys_down' = FkeysDownAfter(ev)
    /\ LET st1 == ReleasingLoop(combo_map, 1, LoopState(button_states, <<>>), ev.code)
           st == ReleaseFinalizeLoop(ButtonOrder(combo_map, 1, <<>>), 1, st1, mod_keys_down)
       IN  /\ button_states' = st.bs
           /\ Observe(ev, st)
    /\ UNCHANGED <<config, mod_state, mod_keys_down, pc>>

\* a non-modifier key event whose value is neither 1 nor 0
KeyRepeat(ev) ==
    /\ pc = "loop"
    /\ ev.type = "EV_KEY"
    /\ ev.code \notin DOMAIN mod_state
    /\ ev.value \notin {0, 1}
    /\ fkeys_down' = FkeysDownAfter(ev)
    /\ Observe(ev, LoopState(button_states, <<>>))
    /\ UNCHANGED <<config, mod_state, mod_keys_down, button_states, pc>>

UiClose == [op |-> "close", code |-> 0, value |-> 0]

\* what leaving the try block does, whatever ended the loop: finally: ui.close()
Finally ==
    /\ pc' = "closed"
    /\ lastEv' = NoEvent
    /\ out' = <<UiClose>>
    /\ dup' = FALSE
    /\ scen' = NoScen
    /\ UNCHANGED <<config, mod_state, mod_keys_down, fkeys_down, button_states,
                   ui_level, held, well_formed, alternates, pressed_via>>

\* except KeyboardInterrupt: print("\nExiting.")
KeyboardInterrupt ==
    /\ pc = "loop"
    /\ Finally

\* any other exception out of device.read_loop(), such as the device going away
ReadError ==
    /\ pc = "loop"
    /\ Finally

(***************************************************************************)
(* The Simple Combo Resolver and its Modifier Tracker.  The script that    *)
(* holds them is not among the source files; the model follows sections    *)
(* 4.1 and 4.3 of the specification.                                       *)
(***************************************************************************)
VARIABLES
    s_codes_down,   \* Modifier Tracker: the physical modifier codes held
    s_keys_down,    \* the trigger keys that are physically down
    press_record,   \* PressRecord: trigger key -> modifier snapshot, "absent" if none
    s_level,        \* the virtual device: the value last written for each button
    s_last,         \* the raw event handled last
    s_out,          \* the virtual event written while handling s_last
    s_paired        \* on a key-up: the button of the down it answers, -1 if none

simpleVars ==
    <<s_codes_down, s_keys_down, press_record, s_level, s_last, s_out, s_paired>>

SimpleModCodes == {"KEY_LEFTCTRL", "KEY_RIGHTCTRL", "KEY_LEFTALT"}

SimpleTriggers == {"KEY_F13", "KEY_F14"}

\* left/right variants collapse to the same logical modifier
LogicalModifier(code) ==
    IF code \in {"KEY_LEFTCTRL", "KEY_RIGHTCTRL"} THEN "ctrl" ELSE "alt"

\* the logical modifier is held if either physical code is down
LogicalHeld(codes) == { LogicalModifier(c) : c \in codes }

\* highest-priority held modifier (Meta > Ctrl > Alt > Shift), or "none"
current_modifier(codes) ==
    IF "ctrl" \in LogicalHeld(codes) THEN "ctrl"
    ELSE IF "alt" \in LogicalHeld(codes) THEN "alt"
    ELSE "none"

\* F13..F24 are buttons 0..11 of each modifier's block
base_button(key) == IF key = "KEY_F13" THEN 0 ELSE 1

BlockSize == 12

offset(modifier) ==
    CASE modifier = "none" -> 0
      [] modifier = "ctrl" -> BlockSize
      [] modifier = "alt" -> 2 * BlockSize

SimpleButtons ==
    { base_button(k) + offset(m) : k \in SimpleTriggers, m \in {"none", "ctrl", "alt"} }

\* the modifier a key-up replays: the current one, not the snapshot
ReplayCurrent(record, key, codes) == current_modifier(codes)

\* the modifier a key-up replays: the stored snapshot, "none" if never recorded
ReplayModifier(record, key, codes) ==
    IF record[key] = "absent" THEN "none" ELSE record[key]

NoSimpleEvent == [code |-> 0, value |-> 0]

\* the button whose down is outstanding for a trigger key
Outstanding(key) ==
    IF press_record[key] = "absent" THEN -1
    ELSE base_button(key) + offset(press_record[key])

SimpleInit ==
    /\ s_codes_down = {}
    /\ s_keys_down \in SUBSET SimpleTriggers
    /\ press_record = [k \in SimpleTriggers |-> "absent"]
    /\ s_level = [b \in SimpleButtons |-> 0]
    /\ s_last = NoEvent
    /\ s_out = NoSimpleEvent
    /\ s_paired = -1

\* Modifier Tracker update(key_code, is_down)
SimpleModifier(code, is_down) ==
    /\ s_codes_down' = IF is_down THEN s_codes_down \cup {code}
                       ELSE s_codes_down \ {code}
    /\ s_last' = KeyEventOf(code, IF is_down THEN 1 ELSE 0)
    /\ s_out' = NoSimpleEvent
    /\ s_paired' = -1
    /\ UNCHANGED <<s_keys_down, press_record, s_level>>

\* trigger-key down: snapshot the modifier, emit the button-down
SimpleKeyDown(key) ==
    /\ key \notin s_keys_down
    /\ LET stored == current_modifier(s_codes_down)
           button == base_button(key) + offset(stored)
       IN  /\ press_record' = [press_record EXCEPT ![key] = stored]
           /\ s_out' = [code |-> CUSTOM_BTN_BASE + button, value |-> 1]
           /\ s_level' = [s_level EXCEPT ![button] = 1]
    /\ s_keys_down' = s_keys_down \cup {key}
    /\ s_last' = KeyEventOf(key, 1)
    /\ s_paired' = -1
    /\ UNCHANGED s_codes_down

\* trigger-key up: look up and remove the snapshot, emit the button-up
SimpleKeyUp(key) ==
    /\ key \in s_keys_down
    /\ LET stored == ReplayModifier(press_record, key, s_codes_down)
           button == base_button(key) + offset(stored)
       IN  /\ s_out' = [code |-> CUSTOM_BTN_BASE + button, value |-> 0]
           /\ s_level' = [s_level EXCEPT ![button] = 0]
    /\ press_record' = [press_record EXCEPT ![key] = "absent"]
    /\ s_paired' = Outstanding(key)
    /\ s_keys_down' = s_keys_down \ {key}
    /\ s_last' = KeyEventOf(key, 0)
    /\ UNCHANGED s_codes_down

(***************************************************************************)
(* forward_throttle of the throttle tool.                                  *)
(***************************************************************************)
VARIABLES
    SUPERCRUISE_ACTIVE,
    GAME_RUNNING,
    last_throttle_value,
    t_call,         \* the arguments of the last call of forward_throttle
    t_before,       \* last_throttle_value when that call was made
    t_out           \* the device operations of that call

fwdVars ==
    <<SUPERCRUISE_ACTIVE, GAME_RUNNING, last_throttle_value, t_call, t_before, t_out>>

\* ecodes.ABS_THROTTLE
ABS_THROTTLE == 6

\* value=None; the samples of the axis are not negative
None == -1

Samples == 0..MaxSample

NoCall == [value |-> None, force |-> FALSE, made |-> FALSE]

\* the test that ignores force
GateWithoutForce(sc, gr, force) == sc \/ ~gr

\* SUPERCRUISE_ACTIVE or not GAME_RUNNING or force
Gate(sc, gr, force) == sc \/ ~gr \/ force

\* forward_throttle(value, force): the new last_throttle_value and the device
\* operations made
forward_throttle(value, force, sc, gr, last) ==
    LET stored == IF value # None THEN value ELSE last
        value_to_use == stored
    IN  [last |-> stored,
         out |-> IF Gate(sc, gr, force)
                 THEN <<UiWrite(ABS_THROTTLE, value_to_use), UiSyn>>
                 ELSE <<UiWrite(ABS_THROTTLE, 0), UiSyn>>]

FwdInit ==
    /\ SUPERCRUISE_ACTIVE \in BOOLEAN
    /\ GAME_RUNNING \in BOOLEAN
    /\ last_throttle_value \in Samples
    /\ t_call = NoCall
    /\ t_before = 0
    /\ t_out = <<>>

CallForwardThrottle(value, force) ==
    /\ LET r == forward_throttle(value, force, SUPERCRUISE_ACTIVE, GAME_RUNNING,
                                 last_throttle_value)
       IN  /\ last_throttle_value' = r.last
           /\ t_out' = r.out
    /\ t_call' = [value |-> value, force |-> force, made |-> TRUE]
    /\ t_before' = last_throttle_value
    /\ UNCHANGED <<SUPERCRUISE_ACTIVE, GAME_RUNNING>>

(***************************************************************************)
(* The throttle tool: the input loop of the main thread, on_modified of    *)
(* the journal handler on the observer thread, and monitor_game_status on  *)
(* its daemon thread, one step per statement that reads or writes a global *)
(* or the devices.                                                         *)
(***************************************************************************)
VARIABLES
    last_log_update,
    now,            \* time.time()
    phys,           \* the value of ABS_THROTTLE the physical device reports
    axis,           \* the value of ABS_THROTTLE last written to the virtual device
    r_pc,           \* main thread: where the input loop is
    r_value,        \* main thread: the sample of the throttle event read last
    r_use,          \* main thread: value_to_use
    h_pc,           \* observer thread: where on_modified is
    h_left,         \* observer thread: lines of new_lines not yet handled
    h_val,          \* observer thread: the value given to forward_throttle
    h_use,          \* observer thread: value_to_use
    h_failed,       \* the last read_current_throttle took its except branch
    h_fresh,        \* SUPERCRUISE_ACTIVE changed with the input loop waiting, and no
                    \* throttle event arrived since
    h_set,          \* the last call of on_modified for a .log file set GAME_RUNNING
    last_timestamp,
    m_pc            \* monitor thread: where monitor_game_status is

toolVars ==
    <<last_log_update, now, phys, axis, r_pc, r_value, r_use, h_pc, h_left,
      h_val, h_use, h_failed, h_fresh, h_set, last_timestamp, m_pc>>

\* time.time() - last_log_update > 15
TIMEOUT == 15

\* time.sleep(5)
POLL == 5

\* ecodes.ABS_X, a code the input loop ignores
ABS_X == 0

EventCodes == {ABS_THROTTLE, ABS_X}

Times == 0..MaxTime

Stamps == 1..MaxStamp

\* a line of the journal: blank, not JSON, or an object with event and timestamp
JournalEvents == {"SupercruiseEntry", "SupercruiseExit", "Music"}

JournalLines ==
    {[kind |-> k, event |-> "", timestamp |-> 0] : k \in {"blank", "bad"}}
        \cup {[kind |-> "json", event |-> e, timestamp |-> t] :
                 e \in JournalEvents, t \in Stamps}

\* the test that allows one more period
StaleAfterAnotherPeriod(t, llu) == t - llu > TIMEOUT + POLL

\* time.time() - last_log_update > 15
Stale(t, llu) == t - llu > TIMEOUT

ToolInit ==
    /\ SUPERCRUISE_ACTIVE = FALSE
    /\ GAME_RUNNING = FALSE
    /\ last_throttle_value = 0
    /\ last_log_update = 0
    /\ now = 0
    /\ phys \in Samples
    /\ axis = forward_throttle(None, TRUE, FALSE, FALSE, 0).out[1].value
    /\ r_pc = "read" /\ r_value = None /\ r_use = None
    /\ h_pc = "idle" /\ h_left = 0 /\ h_val = None /\ h_use = None
    /\ h_failed = FALSE /\ h_fresh = FALSE /\ h_set = FALSE
    /\ last_timestamp = None
    /\ m_pc = "check"
    /\ t_call = NoCall /\ t_before = 0 /\ t_out = <<>>

\* time passes, counted in periods of the monitor
Tick ==
    /\ now + POLL <= MaxTime
    /\ now' = now + POLL
    /\ UNCHANGED <<fwdVars, last_log_update, phys, axis, r_pc, r_value, r_use,
                   h_pc, h_left, h_val, h_use, h_failed, h_fresh, h_set, last_timestamp, m_pc>>

\* main thread: dev.read_loop() yields an event of the physical device
ReadLoopEvent(code, value) ==
    /\ r_pc = "read"
    /\ IF code = ABS_THROTTLE
       THEN /\ phys' = value
            /\ r_value' = value
            /\ r_pc' = "store"
            /\ h_fresh' = FALSE
       ELSE UNCHANGED <<phys, r_value, r_pc, h_fresh>>
    /\ UNCHANGED <<fwdVars, last_log_update, now, axis, r_use, h_pc, h_left, h_val,
                   h_use, h_failed, h_set, last_timestamp, m_pc>>

\* main thread, forward_throttle(event.value): last_throttle_value = value
ReaderStore ==
    /\ r_pc = "store"
    /\ last_throttle_value' = r_value
    /\ r_pc' = "load"
    /\ UNCHANGED <<SUPERCRUISE_ACTIVE, GAME_RUNNING, t_call, t_before, t_out,
                   last_log_update, now, phys, axis, r_value, r_use, h_pc,
                   h_left, h_val, h_use, h_failed, h_fresh, h_set, last_timestamp, m_pc>>

\* main thread, forward_throttle: value_to_use = last_throttle_value
ReaderLoad ==
    /\ r_pc = "load"
    /\ r_use' = last_throttle_value
    /\ r_pc' = "write"
    /\ UNCHANGED <<fwdVars, last_log_update, now, phys, axis, r_value, h_pc,
                   h_left, h_val, h_use, h_failed, h_fresh, h_set, last_timestamp, m_pc>>

\* main thread, forward_throttle: the gate, ui.write and ui.syn
ReaderWrite ==
    /\ r_pc = "write"
    /\ axis' = IF Gate(SUPERCRUISE_ACTIVE, GAME_RUNNING, FALSE) THEN r_use ELSE 0
    /\ r_use' = None
    /\ r_pc' = "read"
    /\ UNCHANGED <<fwdVars, last_log_update, now, phys, r_value, h_pc, h_left,
                   h_val, h_use, h_failed, h_fresh, h_set, last_timestamp, m_pc>>

\* observer thread: on_modified is called; an event for a directory or for a
\* file that is no .log returns at once, any other sets last_log_update
OnModified(is_log, n) ==
    /\ h_pc = "idle"
    /\ IF is_log
       THEN /\ last_log_update' = now
            /\ h_left' = n
            /\ h_pc' = "open"
            /\ h_set' = FALSE
       ELSE /\ n = 0
            /\ h_left' = 0
            /\ h_pc' = "skipped"
            /\ UNCHANGED <<last_log_update, h_set>>
    /\ UNCHANGED <<fwdVars, now, phys, axis, r_pc, r_value, r_use, h_val, h_use,
                   h_failed, h_fresh, last_timestamp, m_pc>>

\* observer thread: on_modified returns
OnModifiedReturn ==
    /\ h_pc \in {"skipped", "lines"} /\ h_left = 0
    /\ h_pc' = "idle"
    /\ UNCHANGED <<fwdVars, last_log_update, now, phys, axis, r_pc, r_value,
                   r_use, h_left, h_val, h_use, h_failed, h_fresh, h_set, last_timestamp, m_pc>>

\* observer thread: the file is opened and its new lines read, then
\* GAME_RUNNING = True; an exception of the read is caught and ends the call
ReadNewLines(ok) ==
    /\ h_pc = "open"
    /\ IF ok
       THEN /\ GAME_RUNNING' = TRUE
            /\ h_set' = TRUE
            /\ UNCHANGED h_left
       ELSE /\ h_left' = 0
            /\ UNCHANGED <<GAME_RUNNING, h_set>>
    /\ h_pc' = "lines"
    /\ UNCHANGED <<SUPERCRUISE_ACTIVE, last_throttle_value, t_call, t_before, t_out,
                   last_log_update, now, phys, axis, r_pc, r_value, r_use,
                   h_val, h_use, h_failed, h_fresh, last_timestamp, m_pc>>

\* the line is skipped: blank, or not newer than last_timestamp
Skipped(line) ==
    \/ line.kind = "blank"
    \/ /\ line.kind = "json"
       /\ last_timestamp # None
       /\ line.timestamp <= last_timestamp

\* observer thread: one turn of the loop over new_lines
HandleLine(line) ==
    /\ h_pc = "lines" /\ h_left > 0
    /\ IF line.kind = "bad"
       THEN \* json.loads raises: the except clause ends the call
            /\ h_left' = 0
            /\ UNCHANGED <<SUPERCRUISE_ACTIVE, last_timestamp, h_pc, h_val, h_fresh>>
       ELSE IF Skipped(line)
       THEN /\ h_left' = h_left - 1
            /\ UNCHANGED <<SUPERCRUISE_ACTIVE, last_timestamp, h_pc, h_val, h_fresh>>
       ELSE /\ h_left' = h_left - 1
            /\ last_timestamp' = line.timestamp
            /\ IF line.event = "SupercruiseEntry" /\ ~SUPERCRUISE_ACTIVE
               THEN /\ SUPERCRUISE_ACTIVE' = TRUE
                    /\ h_pc' = "read_throttle"
                    /\ h_fresh' = (r_pc = "read")
                    /\ UNCHANGED h_val
               ELSE IF line.event = "SupercruiseExit" /\ SUPERCRUISE_ACTIVE
               THEN /\ SUPERCRUISE_ACTIVE' = FALSE
                    /\ h_val' = 0
                    /\ h_pc' = "store"
                    /\ h_fresh' = (r_pc = "read")
               ELSE UNCHANGED <<SUPERCRUISE_ACTIVE, h_pc, h_val, h_fresh>>
    /\ UNCHANGED <<GAME_RUNNING, last_throttle_value, t_call, t_before, t_out,
                   last_log_update, now, phys, axis, r_pc, r_value, r_use,
                   h_use, h_failed, h_set, m_pc>>

\* the function that answers with the stored sample, not the device's value
read_current_throttle_stored(ok) == IF ok THEN last_throttle_value ELSE 0

\* read_current_throttle(): the value of the device's absinfo, 0 when
\* reading it raises
read_current_throttle(ok) == IF ok THEN phys ELSE 0

\* observer thread: current_val = read_current_throttle()
ReadCurrentThrottle(ok) ==
    /\ h_pc = "read_throttle"
    /\ h_val' = read_current_throttle(ok)
    /\ h_failed' = ~ok
    /\ h_pc' = "store"
    /\ UNCHANGED <<fwdVars, last_log_update, now, phys, axis, r_pc, r_value,
                   r_use, h_left, h_use, h_fresh, h_set, last_timestamp, m_pc>>

\* observer thread, forward_throttle(value, force=True): last_throttle_value = value
HandlerStore ==
    /\ h_pc = "store"
    /\ last_throttle_value' = h_val
    /\ h_pc' = "load"
    /\ UNCHANGED <<SUPERCRUISE_ACTIVE, GAME_RUNNING, t_call, t_before, t_out,
                   last_log_update, now, phys, axis, r_pc, r_value, r_use,
                   h_left, h_val, h_use, h_failed, h_fresh, h_set, last_timestamp, m_pc>>

\* observer thread, forward_throttle: value_to_use = last_throttle_value
HandlerLoad ==
    /\ h_pc = "load"
    /\ h_use' = last_throttle_value
    /\ h_pc' = "write"
    /\ UNCHANGED <<fwdVars, last_log_update, now, phys, axis, r_pc, r_value,
                   r_use, h_left, h_val, h_failed, h_fresh, h_set, last_timestamp, m_pc>>

\* observer thread, forward_throttle: the gate, ui.write and ui.syn
HandlerWrite ==
    /\ h_pc = "write"
    /\ axis' = IF Gate(SUPERCRUISE_ACTIVE, GAME_RUNNING, TRUE) THEN h_use ELSE 0
    /\ h_use' = None
    /\ h_val' = None
    /\ h_fresh' = FALSE
    /\ h_pc' = "lines"
    /\ UNCHANGED <<fwdVars, last_log_update, now, phys, r_pc, r_value, r_use,
                   h_left, h_failed, h_set, last_timestamp, m_pc>>

\* monitor thread: if time.time() - last_log_update > 15
MonitorCheck ==
    /\ m_pc = "check"
    /\ m_pc' = IF Stale(now, last_log_update) THEN "assign" ELSE "sleep"
    /\ UNCHANGED <<fwdVars, last_log_update, now, phys, axis, r_pc, r_value,
                   r_use, h_pc, h_left, h_val, h_use, h_failed, h_fresh, h_set, last_timestamp>>

\* monitor thread: GAME_RUNNING = False
MonitorAssign ==
    /\ m_pc = "assign"
    /\ GAME_RUNNING' = FALSE
    /\ m_pc' = "sleep"
    /\ UNCHANGED <<SUPERCRUISE_ACTIVE, last_throttle_value, t_call, t_before, t_out,
                   last_log_update, now, phys, axis, r_pc, r_value, r_use,
                   h_pc, h_left, h_val, h_use, h_failed, h_fresh, h_set, last_timestamp>>

\* monitor thread: time.sleep(5) returns
MonitorWake ==
    /\ m_pc = "sleep"
    /\ m_pc' = "check"
    /\ UNCHANGED <<fwdVars, last_log_update, now, phys, axis, r_pc, r_value,
                   r_use, h_pc, h_left, h_val, h_use, h_failed, h_fresh, h_set, last_timestamp>>

(***************************************************************************)
(* The specifications.  Each runs one program and leaves the state of the  *)
(* others at rest.                                                         *)
(***************************************************************************)
vars == <<comboVars, simpleVars, fwdVars, toolVars>>

ComboIdle ==
    /\ config = <<>>
    /\ mod_state = [k \in MOD_KEYS |-> FALSE]
    /\ mod_keys_down = {}
    /\ fkeys_down = {}
    /\ button_states = <<>>
    /\ pc = "closed"
    /\ lastEv = NoEvent
    /\ out = <<>>
    /\ ui_level = <<>>
    /\ held = {}
    /\ well_formed = TRUE
    /\ alternates = TRUE
    /\ dup = FALSE
    /\ pressed_via = <<>>
    /\ scen = NoScen

SimpleIdle ==
    /\ s_codes_down = {}
    /\ s_keys_down = {}
    /\ press_record = [k \in SimpleTriggers |-> "absent"]
    /\ s_level = [b \in SimpleButtons |-> 0]
    /\ s_last = NoEvent
    /\ s_out = NoSimpleEvent
    /\ s_paired = -1

FwdIdle ==
    /\ SUPERCRUISE_ACTIVE = FALSE
    /\ GAME_RUNNING = FALSE
    /\ last_throttle_value = 0
    /\ t_call = NoCall
    /\ t_before = 0
    /\ t_out = <<>>

\* the threads of the throttle tool at rest
ToolIdle ==
    /\ last_log_update = 0
    /\ now = 0
    /\ phys = 0
    /\ axis = 0
    /\ r_pc = "read" /\ r_value = None /\ r_use = None
    /\ h_pc = "idle" /\ h_left = 0 /\ h_val = None /\ h_use = None
    /\ h_failed = FALSE /\ h_fresh = FALSE /\ h_set = FALSE
    /\ last_timestamp = None
    /\ m_pc = "check"

Init == ComboInit /\ SimpleIdle /\ FwdIdle /\ ToolIdle

Next ==
    \/ \E ev \in RawEvents : SkipEvent(ev) /\ UNCHANGED <<simpleVars, fwdVars, toolVars>>
    \/ \E ev \in RawEvents : ModifierEvent(ev) /\ UNCHANGED <<simpleVars, fwdVars, toolVars>>
    \/ \E ev \in RawEvents : KeyPress(ev) /\ UNCHANGED <<simpleVars, fwdVars, toolVars>>
    \/ \E ev \in RawEvents : KeyRelease(ev) /\ UNCHANGED <<simpleVars, fwdVars, toolVars>>
    \/ \E ev \in RawEvents : KeyRepeat(ev) /\ UNCHANGED <<simpleVars, fwdVars, toolVars>>
    \/ KeyboardInterrupt /\ UNCHANGED <<simpleVars, fwdVars, toolVars>>
    \/ ReadError /\ UNCHANGED <<simpleVars, fwdVars, toolVars>>

Spec == Init /\ [][Next]_vars

InitSimple == SimpleInit /\ ComboIdle /\ FwdIdle /\ ToolIdle

NextSimple ==
    \/ \E code \in SimpleModCodes, is_down \in BOOLEAN :
          SimpleModifier(code, is_down) /\ UNCHANGED <<comboVars, fwdVars, toolVars>>
    \/ \E key \in SimpleTriggers : SimpleKeyDown(key) /\ UNCHANGED <<comboVars, fwdVars, toolVars>>
    \/ \E key \in SimpleTriggers : SimpleKeyUp(key) /\ UNCHANGED <<comboVars, fwdVars, toolVars>>

SpecSimple == InitSimple /\ [][NextSimple]_vars

InitFwd == FwdInit /\ ComboIdle /\ SimpleIdle /\ ToolIdle

NextFwd ==
    \E value \in Samples \cup {None}, force \in BOOLEAN :
        CallForwardThrottle(value, force) /\ UNCHANGED <<comboVars, simpleVars, toolVars>>

SpecFwd == InitFwd /\ [][NextFwd]_vars

InitTool == ToolInit /\ ComboIdle /\ SimpleIdle

NextTool ==
    \/ Tick /\ UNCHANGED <<comboVars, simpleVars>>
    \/ \E code \in EventCodes, value \in Samples :
          ReadLoopEvent(code, value) /\ UNCHANGED <<comboVars, simpleVars>>
    \/ ReaderStore /\ UNCHANGED <<comboVars, simpleVars>>
    \/ ReaderLoad /\ UNCHANGED <<comboVars, simpleVars>>
    \/ ReaderWrite /\ UNCHANGED <<comboVars, simpleVars>>
    \/ \E is_log \in BOOLEAN, n \in 0..MaxLines :
          OnModified(is_log, n) /\ UNCHANGED <<comboVars, simpleVars>>
    \/ OnModifiedReturn /\ UNCHANGED <<comboVars, simpleVars>>
    \/ \E ok \in BOOLEAN : ReadNewLines(ok) /\ UNCHANGED <<comboVars, simpleVars>>
    \/ \E line \in JournalLines : HandleLine(line) /\ UNCHANGED <<comboVars, simpleVars>>
    \/ \E ok \in BOOLEAN : ReadCurrentThrottle(ok) /\ UNCHANGED <<comboVars, simpleVars>>
    \/ HandlerStore /\ UNCHANGED <<comboVars, simpleVars>>
    \/ HandlerLoad /\ UNCHANGED <<comboVars, simpleVars>>
    \/ HandlerWrite /\ UNCHANGED <<comboVars, simpleVars>>
    \/ MonitorCheck /\ UNCHANGED <<comboVars, simpleVars>>
    \/ MonitorAssign /\ UNCHANGED <<comboVars, simpleVars>>
    \/ MonitorWake /\ UNCHANGED <<comboVars, simpleVars>>

SpecTool == InitTool /\ [][NextTool]_vars

\* the monitor thread keeps running: its loop has no exit and each of its
\* statements ends
MonitorStep ==
    (MonitorCheck \/ MonitorAssign \/ MonitorWake) /\ UNCHANGED <<comboVars, simpleVars>>

SpecToolLive == InitTool /\ [][NextTool]_vars /\ WF_vars(MonitorStep)

(***************************************************************************)
(* Properties of the combo remapper.                                       *)
(***************************************************************************)
Held(b) == button_states[b] \in {"pressed", "releasing"}

\* the item of combo_map at i is the only one with its key and with its button
OnlyBinding(i) ==
    \A j \in DOMAIN combo_map :
        j # i => /\ combo_map[j].key[2] # combo_map[i].key[2]
                 /\ BtnNum(combo_map[j].val) # BtnNum(combo_map[i].val)

\* C1: the virtual events written for a button alternate down, up, down, ...
\* starting with a down: no write ever repeats the level its button already
\* has, in particular not the down of a key-down delivered twice in a row.
C1_WritesAlternate == alternates

\* C1 witness: the same key-down was delivered twice in a row for a button that
\* is pressed, and the second delivery wrote nothing.
C1_Witness ==
    /\ dup
    /\ lastEv.type = "EV_KEY" /\ lastEv.value = 1
    /\ \E i \in DOMAIN combo_map :
          /\ combo_map[i].key[2] = lastEv.code
          /\ button_states[BtnNum(combo_map[i].val)] = "pressed"
          /\ ui_level[BtnNum(combo_map[i].val)] = 1
    /\ out = <<>>
    /\ alternates

\* C2: when the raw events so far are those of physical keys and every key
\* that went down is up again, every button is 'released' and up at the device.
C2_NoStuckButton ==
    (pc = "loop" /\ well_formed /\ held = {}) =>
        \A b \in DOMAIN button_states :
            button_states[b] = "released" /\ ui_level[b] = 0

\* C2 witness: the last key has just gone up and the event wrote the button-up
\* of a button that was down.
C2_Witness ==
    /\ pc = "loop" /\ well_formed /\ held = {}
    /\ lastEv.type = "EV_KEY" /\ lastEv.value = 0
    /\ \E b \in DOMAIN button_states : UiWrite(CUSTOM_BTN_BASE + b, 0) \in Range(out)

\* C3: after each raw event the device level of a button is down exactly when
\* its state is 'pressed' or 'releasing'; in 'released' or 'pressing' it is up.
C3_LevelAgreesWithState ==
    \A b \in DOMAIN button_states :
        /\ ui_level[b] \in {0, 1}
        /\ (ui_level[b] = 1) <=> Held(b)
        /\ button_states[b] \in {"released", "pressing"} => ui_level[b] = 0

\* C3 witness: one button is down in 'releasing' while another is up again
\* after having been written.
C3_Witness ==
    \E b, c \in DOMAIN button_states :
        /\ button_states[b] = "releasing" /\ ui_level[b] = 1
        /\ button_states[c] = "released" /\ ui_level[c] = 0
        /\ UiWrite(CUSTOM_BTN_BASE + c, 0) \in Range(out)

\* C4: from a clean state, for a binding (M, k) -> b with m in M that is the
\* only binding of k and of b, the raw sequence m down, k down, k up, m up
\* writes nothing, b down, nothing, b up, in that order and nothing else.
C4_ScenarioWrites ==
    \A i \in DOMAIN combo_map :
        (/\ scen.stage >= 1
         /\ scen.m \in combo_map[i].key[1]
         /\ scen.stage >= 2 => scen.k = combo_map[i].key[2]
         /\ OnlyBinding(i))
        => LET b == BtnNum(combo_map[i].val)
           IN  /\ scen.stage = 1 => Writes(out) = <<>>
               /\ scen.stage = 2 => Writes(out) = <<UiWrite(CUSTOM_BTN_BASE + b, 1)>>
               /\ scen.stage = 3 => Writes(out) = <<>>
               /\ scen.stage = 4 => Writes(out) = <<UiWrite(CUSTOM_BTN_BASE + b, 0)>>

\* C4 witness: the sequence has run to its end in a table with a second
\* binding, and the last event wrote the button-up.
C4_Witness ==
    \E i \in DOMAIN combo_map :
        /\ scen.stage = 4
        /\ scen.m \in combo_map[i].key[1]
        /\ scen.k = combo_map[i].key[2]
        /\ OnlyBinding(i)
        /\ Len(combo_map) = 2
        /\ Writes(out) = <<UiWrite(CUSTOM_BTN_BASE + BtnNum(combo_map[i].val), 0)>>

\* the other physical code of the modifier pair
PairOf(key_name) ==
    IF key_name = "KEY_LEFTCTRL" THEN "KEY_RIGHTCTRL" ELSE "KEY_LEFTCTRL"

\* C6: on raw events that physical keys can produce, when both codes of a
\* modifier pair are held and one is released, a button in 'releasing' that
\* was pressed through a binding containing the code still held is not
\* finalized by that release; and a press of the trigger of such a binding
\* right after the release still writes the button-down of a released button.
C6_PairStillHeld ==
    [][\A i \in DOMAIN combo_map :
          LET b == BtnNum(combo_map[i].val)
              mods == combo_map[i].key[1]
          IN  /\ (/\ pc' = "loop" /\ well_formed'
                  /\ lastEv'.type = "EV_KEY" /\ lastEv'.value = 0
                  /\ lastEv'.code \in mod_keys_down
                  /\ PairOf(lastEv'.code) \in mod_keys_down
                  /\ PairOf(lastEv'.code) \in mods
                  /\ button_states[b] = "releasing"
                  /\ pressed_via[b] = i)
                 => button_states'[b] = "releasing"
              /\ (/\ pc' = "loop" /\ well_formed'
                  /\ lastEv.type = "EV_KEY" /\ lastEv.value = 0
                  /\ lastEv.code \in MOD_KEYS
                  /\ PairOf(lastEv.code) \in mod_keys_down
                  /\ PairOf(lastEv.code) \in mods
                  /\ lastEv' = KeyEventOf(combo_map[i].key[2], 1)
                  /\ button_states[b] = "released")
                 => UiWrite(CUSTOM_BTN_BASE + b, 1) \in Range(out')
      ]_comboVars

\* C7: a raw key event with value 2 writes nothing to the device and leaves
\* every button's state as it was, here for the repeat of a key that is down.
C7_RepeatIgnored ==
    [][(pc' = "loop" /\ well_formed' /\ lastEv'.type = "EV_KEY" /\ lastEv'.value = 2)
          => (out' = <<>> /\ button_states' = button_states)]_comboVars

\* C8: handling one raw event ends with exactly one sync, after all its writes.
C8_OneSynPerEvent ==
    (pc = "loop" /\ lastEv # NoEvent) =>
        /\ Len(Syns(out)) = 1
        /\ out[Len(out)] = UiSyn

\* C9: when the device is closed, every button is 'released' and up.
C9_FlushedOnShutdown ==
    pc = "closed" =>
        \A b \in DOMAIN button_states :
            button_states[b] = "released" /\ ui_level[b] = 0

\* the virtual events written for button b among the device operations
WritesFor(ops, b) ==
    SelectSeq(ops, LAMBDA o : o.op = "write" /\ o.code = CUSTOM_BTN_BASE + b)

\* the items of combo_map that bind button b
ItemsOf(b) == { i \in DOMAIN combo_map : BtnNum(combo_map[i].val) = b }

\* C14: on raw events that physical keys can produce, a button-down for b is
\* written only while a key-down of a key k is handled such that some item (M, k) -> b exists with a modifier of that
\* same M held.
C14_PressGuard ==
    \A b \in DOMAIN button_states :
        (well_formed /\ UiWrite(CUSTOM_BTN_BASE + b, 1) \in Range(out)) =>
            /\ lastEv.type = "EV_KEY" /\ lastEv.value = 1
            /\ \E i \in ItemsOf(b) :
                  /\ combo_map[i].key[2] = lastEv.code
                  /\ combo_map[i].key[1] \cap active_mods # {}

\* C15: on raw events that physical keys can produce, a key-down of k handled while b is 'released' and a modifier of some
\* item (M, k) -> b is held writes exactly one button-down for b and leaves b
\* in 'pressed'.
C15_PressComplete ==
    [][\A i \in DOMAIN combo_map :
          LET b == BtnNum(combo_map[i].val)
          IN  (/\ pc' = "loop" /\ well_formed'
               /\ lastEv' = KeyEventOf(combo_map[i].key[2], 1)
               /\ button_states[b] = "released"
               /\ combo_map[i].key[1] \cap active_mods # {})
              => /\ WritesFor(out', b) = <<UiWrite(CUSTOM_BTN_BASE + b, 1)>>
                 /\ button_states'[b] = "pressed"
      ]_comboVars

\* C16: on raw events that physical keys can produce, a button-up for b is
\* written only when b goes from 'releasing' (or
\* from 'pressed', through 'releasing', within one key release) to
\* 'released', once, and only when no modifier of the item through which b
\* was pressed is held.
C16_ReleaseGuard ==
    [][\A b \in DOMAIN button_states :
          (pc' = "loop" /\ well_formed'
              /\ UiWrite(CUSTOM_BTN_BASE + b, 0) \in Range(out'))
          => /\ button_states[b] \in {"pressed", "releasing"}
             /\ button_states'[b] = "released"
             /\ WritesFor(out', b) = <<UiWrite(CUSTOM_BTN_BASE + b, 0)>>
             /\ pressed_via[b] \in DOMAIN combo_map
             /\ combo_map[pressed_via[b]].key[1] \cap mod_keys_down' = {}
      ]_comboVars

\* C17: after each raw event that physical keys can produce a button is in 'releasing' only if a modifier
\* of the item through which it was pressed is held.
C17_NoLingeringRelease ==
    \A b \in DOMAIN button_states :
        (pc = "loop" /\ well_formed /\ button_states[b] = "releasing") =>
            /\ pressed_via[b] \in DOMAIN combo_map
            /\ combo_map[pressed_via[b]].key[1] \cap mod_keys_down # {}

\* C18: 'pressing' is entered only from 'released' in the first pass of a
\* key press; the second pass either promotes the button to 'pressed', for a
\* key that one of its items binds, or returns it to 'released' and writes
\* nothing for it.  After each raw event no button is in 'pressing', and a
\* key-down of a key no item of b binds leaves b as it was.
C18_PressingTransient ==
    [][pc' = "loop" =>
          \A b \in DOMAIN button_states :
              /\ button_states'[b] # "pressing"
              /\ (lastEv'.type = "EV_KEY" /\ lastEv'.value = 1
                     /\ lastEv'.code \notin DOMAIN mod_state) =>
                    LET st1 == PressingLoop(combo_map, 1,
                                            LoopState(button_states, <<>>), active_mods)
                    IN  /\ st1.bs[b] = "pressing" =>
                            /\ button_states[b] = "released"
                            /\ \/ /\ button_states'[b] = "pressed"
                                  /\ \E i \in ItemsOf(b) :
                                        combo_map[i].key[2] = lastEv'.code
                               \/ /\ button_states'[b] = "released"
                                  /\ WritesFor(out', b) = <<>>
                        /\ (\A i \in ItemsOf(b) : combo_map[i].key[2] # lastEv'.code) =>
                              /\ button_states'[b] = button_states[b]
                              /\ WritesFor(out', b) = <<>>
      ]_comboVars

\* C18 witness: a key that no item binds went down while a modifier of a
\* released button was held; the button is 'released' and nothing was written.
C18_Witness ==
    /\ pc = "loop"
    /\ lastEv.type = "EV_KEY" /\ lastEv.value = 1 /\ lastEv.code \notin MOD_KEYS
    /\ \A i \in DOMAIN combo_map : combo_map[i].key[2] # lastEv.code
    /\ \E i \in DOMAIN combo_map :
          /\ combo_map[i].key[1] \cap active_mods # {}
          /\ button_states[BtnNum(combo_map[i].val)] = "released"
    /\ out = <<>>

(***************************************************************************)
(* Properties of the Simple Combo Resolver.                                *)
(***************************************************************************)
\* C5: the button-up of a trigger key is written for the button its paired
\* button-down was written for, whatever the modifiers are at release time;
\* so a button is down at the device exactly while a trigger key holds it.
C5_ReplayMatchesSnapshot ==
    /\ (s_last.value = 0 /\ s_last.code \in SimpleTriggers /\ s_paired # -1)
          => s_out = [code |-> CUSTOM_BTN_BASE + s_paired, value |-> 0]
    /\ \A b \in SimpleButtons :
          (s_level[b] = 1) <=> (\E k \in SimpleTriggers : Outstanding(k) = b)

\* C5 witness: a trigger key pressed under Ctrl has been released with no
\* modifier held, and its button-up went to the Ctrl block.
C5_Witness ==
    /\ s_last = KeyEventOf("KEY_F13", 0)
    /\ s_codes_down = {}
    /\ s_paired = base_button("KEY_F13") + offset("ctrl")
    /\ s_out = [code |-> CUSTOM_BTN_BASE + s_paired, value |-> 0]

(***************************************************************************)
(* Properties of forward_throttle.                                         *)
(***************************************************************************)
\* C10: every call of forward_throttle writes exactly one ABS_THROTTLE value
\* followed by one sync; the value is the last raw sample (the argument when
\* given, the stored sample otherwise) if SUPERCRUISE_ACTIVE or not
\* GAME_RUNNING or force, and 0 otherwise.
C10_ForwardThrottle ==
    t_call.made =>
        LET sample == IF t_call.value = None THEN t_before ELSE t_call.value
            expected == IF SUPERCRUISE_ACTIVE \/ ~GAME_RUNNING \/ t_call.force
                        THEN sample ELSE 0
        IN  /\ Len(t_out) = 2
            /\ t_out[1] = [op |-> "write", code |-> ABS_THROTTLE, value |-> expected]
            /\ t_out[2] = UiSyn
            /\ last_throttle_value = sample

\* C10 witness: a forced call without a sample, in the game and out of
\* supercruise, wrote the stored non-zero sample.
C10_Witness ==
    /\ t_call = [value |-> None, force |-> TRUE, made |-> TRUE]
    /\ GAME_RUNNING /\ ~SUPERCRUISE_ACTIVE
    /\ t_before > 0
    /\ t_out = <<UiWrite(ABS_THROTTLE, t_before), UiSyn>>


(***************************************************************************)
(* Properties of the throttle tool.                                        *)
(***************************************************************************)
\* every thread of the tool has finished the operation it was in
ToolAtRest == r_pc = "read" /\ h_pc = "idle" /\ m_pc # "assign"

\* C11: once a raw sample has been read and every operation has completed,
\* the value last written to the virtual axis is the last raw sample when
\* GAME_RUNNING is False, and 0 when GAME_RUNNING is True and
\* SUPERCRUISE_ACTIVE is False.
C11_AxisFollowsFlags ==
    (ToolAtRest /\ r_value # None) =>
        /\ ~GAME_RUNNING => axis = r_value
        /\ (GAME_RUNNING /\ ~SUPERCRUISE_ACTIVE) => axis = 0

\* the steps of on_modified between a change of SUPERCRUISE_ACTIVE and the
\* end of the forced write
ForcedWritePending == h_pc \in {"read_throttle", "store", "load", "write"}

C13_LivenessDecay ==
    /\ (now - last_log_update > 15) ~> (~GAME_RUNNING \/ now - last_log_update <= 15)
    /\ [][/\ (m_pc = "check" /\ m_pc' # "check" /\ now - last_log_update > 15)
             => m_pc' = "assign"
          /\ (m_pc = "assign" /\ m_pc' # "assign") => ~GAME_RUNNING'
          /\ (~GAME_RUNNING /\ GAME_RUNNING') => (h_pc = "open" /\ h_pc' = "lines")
       ]_toolVars

\* C13 witness: the journal was modified, more than 15 time units passed
\* without another modification, and the monitor has set GAME_RUNNING False.
C13_Witness ==
    /\ h_set
    /\ now - last_log_update > 15
    /\ m_pc = "sleep"
    /\ ~GAME_RUNNING


\* C19: when the input loop waits for an event, on_modified has returned,
\* SUPERCRUISE_ACTIVE is True and reading the device did not fail, the
\* virtual axis has the value of the physical throttle.
C19_HandlerKeepsNewestSample ==
    (r_pc = "read" /\ h_pc = "idle" /\ SUPERCRUISE_ACTIVE /\ ~h_failed) => axis = phys

\* C20: when the last call of on_modified set GAME_RUNNING, the modification
\* it saw is at most 15 time units old, and neither on_modified nor the
\* monitor is inside a step, GAME_RUNNING is True.
C20_RefreshNotOverwritten ==
    (h_set /\ now - last_log_update <= 15 /\ h_pc = "idle" /\ m_pc # "assign")
        => GAME_RUNNING

====
